---- MODULE Spec2Model ----
(***************************************************************************)
(* Model of jelease (main.go): the /webhook handler that reconciles a      *)
(* newreleases.io release notification with the issues of a Jira tracker.  *)
(* The tracker (go-jira client + Jira server) is the environment: it holds *)
(* the issues, answers Search / Create / UpdateIssue, and may fail.        *)
(***************************************************************************)
EXTENDS Integers, Sequences, FiniteSets, TLC

(* ------------------------------ bounds --------------------------------- *)

\* Spec: number of webhook requests the server handles, and number of issues
\* already on the tracker when the server starts
MaxReq == 2
MaxInit == 3
\* SpecRace: number of webhook requests the server handles, on a tracker
\* that holds no issue when the server starts
MaxRace == 3
\* latest value of the tracker's clock (createdAt values are 0..MaxTime)
MaxTime == 1
\* SpecStartup: number of webhook requests sent to the server, and number of
\* issues on the tracker when the process starts
MaxStartupReq == 1
MaxStartupInit == 1
\* SpecStatus: number of webhook requests, and number of issues on the tracker
\* when the server starts; the issues change status while the server runs
MaxStatusReq == 1
MaxStatusInit == 3
\* SpecTemplate: number of tokens of a template text
MaxTemplateLen == 3

Projects == {"widget", "gadget"}
Versions == {"1.9.0", "2.0.0"}
\* the values of JELEASE_ADD_LABELS tried: none, a plain label, a label that
\* is also the name of a project
AddLabelsChoices == {<< >>, <<"deps">>, <<"widget">>}
Methods == {"POST", "GET"}

Requests == 1..(IF MaxReq > MaxRace THEN MaxReq ELSE MaxRace)

(* --------------------------- program constants ------------------------- *)

StatusOK == 200
StatusBadRequest == 400
StatusMethodNotAllowed == 405
StatusInternalServerError == 500
\* no status line has been written to the ResponseWriter yet
NoStatus == 0

VARIABLES
    env,      \* the process environment read at startup
    config,   \* var config Config
    issues,   \* the tracker: sequence of issues, issue n at index n
    rev,      \* the tracker: number of changes the server applied to the issues
    req,      \* per request: the handler's position, its local variables and
              \* the calls it made on the tracker client
    server,   \* run(): its position, the error it returned, the steps passed
    jira,     \* the tracker: the project keys and the status names it has
    tmpl      \* a config.Template (the receiver *t) and the last call on it

vars == <<env, config, issues, rev, req, server, jira, tmpl>>

(* ------------------------------ Release -------------------------------- *)

\* the summary with the two fields in each other's place
IssueSummarySwapped(release) ==
    <<"Update ", release.Version, " to version ", release.Project>>

\* fmt.Sprintf("Update %v to version %v", release.Project, release.Version)
IssueSummary(release) ==
    <<"Update ", release.Project, " to version ", release.Version>>

(* A []string is a view of len elements of a backing array that may be     *)
(* longer (its capacity is the length of the array).                      *)

\* the elements of a slice
Elems(slice) == SubSeq(slice.array, 1, slice.len)

\* reflect.MakeSlice(typ, len(vals), len(vals)), filled with the values: what
\* envconfig.Process builds for a []string field
MakeSlice(elems) == [array |-> elems, len |-> Len(elems)]

\* append(slice, x), the slice it returns: below capacity it is a longer view
\* of the same array (shared), at capacity a view of a fresh copy (own)
AppendResult(slice, x) ==
    IF slice.len < Len(slice.array)
    THEN [shared |-> TRUE, own |-> << >>, len |-> slice.len + 1]
    ELSE [shared |-> FALSE, own |-> Append(Elems(slice), x), len |-> slice.len + 1]

\* append(slice, x), what it leaves in the appended slice's array: below
\* capacity x is written after the last element
AppendBacking(slice, x) ==
    IF slice.len < Len(slice.array)
    THEN [slice EXCEPT !.array[slice.len + 1] = x]
    ELSE slice

\* JiraIssue with the project name left out of the labels
JiraIssueWithoutProjectLabel(release) ==
    [ Description |-> "Update issue generated by https://github.2rioffice.com/platform/jelease using newreleases.io.",
      Project     |-> config.Project,
      Type        |-> "Task",
      Status      |-> config.DefaultStatus,
      Labels      |-> [shared |-> TRUE, own |-> << >>, len |-> config.AddLabels.len],
      Summary     |-> IssueSummary(release) ]

\* labels := append(config.AddLabels, release.Project); return jira.Issue{...}
JiraIssue(release) ==
    [ Description |-> "Update issue generated by https://github.2rioffice.com/platform/jelease using newreleases.io.",
      Project     |-> config.Project,
      Type        |-> "Task",
      Status      |-> config.DefaultStatus,
      Labels      |-> AppendResult(config.AddLabels, release.Project),
      Summary     |-> IssueSummary(release) ]

\* the issue as Create sends it: the labels are read from their array when
\* the request is built
Marshal(i) ==
    [ i EXCEPT !.Labels = IF i.Labels.shared
                          THEN SubSeq(config.AddLabels.array, 1, i.Labels.len)
                          ELSE i.Labels.own ]

\* the zero value of jira.Issue as JiraIssue builds it (var i)
NoIssue ==
    [ Description |-> "", Project |-> "", Type |-> "", Status |-> "",
      Labels |-> [shared |-> FALSE, own |-> << >>, len |-> 0], Summary |-> << >> ]

\* the zero value of jira.Issue (var oldestExistingIssue jira.Issue) and of Release
ZeroIssue ==
    [ ID |-> 0, Key |-> << >>, Created |-> 0, Summary |-> << >>, Description |-> "",
      Labels |-> << >>, Status |-> "", Project |-> "", Type |-> "" ]
NoRelease == [Project |-> "", Version |-> ""]
\* a nil *jira.Issue, and the reference Create returns on success
Nil == [ID |-> -1, Key |-> << >>]
IssueRef(issue) == [ID |-> issue.ID, Key |-> issue.Key]

(* --------------------------- the tracker ------------------------------- *)

\* how a call on the tracker client ends: success, an error with an HTTP
\* response (4xx/5xx), or a transport error, for which go-jira returns a nil
\* *jira.Response together with the error
Outcomes == {"ok", "http", "transport"}

\* the issue the tracker stores for a Create of fields i at time t
TrackerIssue(n, i, t) ==
    [ ID |-> n, Key |-> <<i.Project, n>>, Created |-> t, Summary |-> i.Summary,
      Description |-> i.Description, Labels |-> i.Labels, Status |-> i.Status,
      Project |-> i.Project, Type |-> i.Type ]

\* the tracker's clock never runs backwards: a new issue is not older than
\* the issues that exist
Clock ==
    IF issues = << >> THEN 0
    ELSE CHOOSE t \in 0..MaxTime :
            /\ \E n \in DOMAIN issues : issues[n].Created = t
            /\ \A n \in DOMAIN issues : issues[n].Created <= t

\* the query with the release's version in the place of its project
ExistingIssuesQueryByVersion(release) ==
    [status |-> config.DefaultStatus, labels |-> release.Version]

\* fmt.Sprintf("status = %q and labels = %q", config.DefaultStatus, release.Project)
ExistingIssuesQuery(release) ==
    [status |-> config.DefaultStatus, labels |-> release.Project]

\* a match that looks at the label only
MatchesAnyStatus(issue, q) ==
    \E k \in DOMAIN issue.Labels : issue.Labels[k] = q.labels

\* JQL: status = q.status and labels = q.labels
Matches(issue, q) ==
    /\ issue.Status = q.status
    /\ \E k \in DOMAIN issue.Labels : issue.Labels[k] = q.labels

\* the orders in which the tracker may list a set of issues (the query has
\* no ORDER BY)
Listings(S) ==
    { f \in [1..Cardinality(S) -> S] :
        \A a, b \in 1..Cardinality(S) : a # b => f[a] # f[b] }

SearchResults(q) ==
    Listings({ issues[n] : n \in { m \in DOMAIN issues : Matches(issues[m], q) } })

(* --------------------------- handlePostWebhook ------------------------- *)

\* the handler without its method check
MethodAllowedAny(method) == method \in Methods

\* r.Method != http.MethodPost is rejected
MethodAllowed(method) == method = "POST"

\* the request bodies tried: one that is not JSON, and a JSON object per release
BadBody == [ok |-> FALSE, Project |-> "", Version |-> ""]
Bodies ==
    {BadBody} \cup { [ok |-> TRUE, Project |-> p, Version |-> v] : p \in Projects, v \in Versions }

\* the decoding with its error dropped
DecodeNeverFails(body) ==
    [err |-> FALSE, release |-> [Project |-> body.Project, Version |-> body.Version]]

\* decoder.Decode(&release)
Decode(body) ==
    IF body.ok
    THEN [err |-> FALSE, release |-> [Project |-> body.Project, Version |-> body.Version]]
    ELSE [err |-> TRUE, release |-> NoRelease]

\* the test of line 109 inverted
NoPreviousIssuesInverted(existingIssues) == Len(existingIssues) # 0

\* if len(existingIssues) == 0
NoPreviousIssues(existingIssues) == Len(existingIssues) = 0

\* After in the place of Before
BeforeAsAfter(tCurrent, tOldest) == tCurrent > tOldest

\* a comparison that also holds for equal times
BeforeOrEqual(tCurrent, tOldest) == tCurrent <= tOldest

\* tCurrent.Before(tOldest)
Before(tCurrent, tOldest) == tCurrent < tOldest

\* the loop without line 138: the issue that stops being the oldest is not
\* added to the duplicates
RECURSIVE OldestLoopForgetsReplaced(_, _, _, _)
OldestLoopForgetsReplaced(existingIssues, i, oldest, dups) ==
    IF i > Len(existingIssues)
    THEN [oldestExistingIssue |-> oldest, duplicateIssueKeys |-> dups]
    ELSE LET existingIssue == existingIssues[i] IN
         IF i = 1
         THEN OldestLoopForgetsReplaced(existingIssues, i + 1, existingIssue, dups)
         ELSE IF existingIssue.Created < oldest.Created
              THEN OldestLoopForgetsReplaced(existingIssues, i + 1, existingIssue, dups)
              ELSE OldestLoopForgetsReplaced(existingIssues, i + 1, oldest,
                                             Append(dups, existingIssue.Key))

\* for i, existingIssue := range existingIssues { ... }
RECURSIVE OldestLoop(_, _, _, _)
OldestLoop(existingIssues, i, oldest, dups) ==
    IF i > Len(existingIssues)
    THEN [oldestExistingIssue |-> oldest, duplicateIssueKeys |-> dups]
    ELSE LET existingIssue == existingIssues[i] IN
         IF i = 1
         THEN OldestLoop(existingIssues, i + 1, existingIssue, dups)
         ELSE IF Before(existingIssue.Created, oldest.Created)
              THEN OldestLoop(existingIssues, i + 1, existingIssue, Append(dups, oldest.Key))
              ELSE OldestLoop(existingIssues, i + 1, oldest, Append(dups, existingIssue.Key))

SelectOldest(existingIssues) == OldestLoop(existingIssues, 1, ZeroIssue, << >>)

\* the update that sends the labels and the description as well
UpdatesWholeIssue(release) ==
    [ summary     |-> IssueSummary(release),
      labels      |-> Append(Elems(config.AddLabels), release.Project),
      description |-> "Update issue generated by https://github.2rioffice.com/platform/jelease using newreleases.io." ]

\* updates := map[string]any{"update": issueUpdate{Summary: {{Set: release.IssueSummary()}}}}
Updates(release) == [summary |-> IssueSummary(release)]

\* the tracker sets the fields that the update names and no other
TrackerUpdate(issue, updates) ==
    [ issue EXCEPT
        !.Summary     = IF "summary" \in DOMAIN updates THEN updates.summary ELSE @,
        !.Labels      = IF "labels" \in DOMAIN updates THEN updates.labels ELSE @,
        !.Description = IF "description" \in DOMAIN updates THEN updates.description ELSE @ ]

\* the handler's locals before the request arrives
IdleRequest ==
    [ pc |-> "idle", method |-> "", body |-> BadBody,
      release |-> NoRelease, existingIssues |-> << >>,
      oldestExistingIssue |-> ZeroIssue, duplicateIssueKeys |-> << >>,
      i |-> NoIssue, newIssue |-> Nil,
      code |-> NoStatus, panicked |-> FALSE, logged |-> << >>, calls |-> << >> ]

\* a call on the tracker client: the operation, the issue id it names, what
\* it sends (the query, the issue, the update), how it ended, and the
\* revision of the tracker that it met
Call(op, id, arg, res) == [op |-> op, id |-> id, arg |-> arg, res |-> res, rev |-> rev]

\* lines 78-92: the method check and the decoding of the body
Receive(r) ==
    /\ server.pc = "serving"
    /\ req[r].pc = "idle"
    /\ IF r = 1 THEN TRUE ELSE req[r - 1].pc # "idle"
    /\ \E method \in Methods, body \in Bodies :
        IF ~MethodAllowed(method)
        THEN req' = [req EXCEPT ![r].pc = "done", ![r].method = method,
                                ![r].body = body,
                                ![r].code = StatusMethodNotAllowed,
                                ![r].logged = Append(@, "Rejected")]
        ELSE IF Decode(body).err
        THEN req' = [req EXCEPT ![r].pc = "done", ![r].method = method,
                                ![r].body = body,
                                ![r].code = StatusBadRequest,
                                ![r].logged = Append(@, "DecodeError")]
        ELSE req' = [req EXCEPT ![r].pc = "search", ![r].method = method,
                                ![r].body = body,
                                ![r].release = Decode(body).release]
    /\ UNCHANGED <<env, config, issues, rev, server, jira, tmpl>>

\* lines 95-111 and 128-147: the search and its error path, then the rendering
\* of the issue to create or the choice of the oldest issue
Search(r) ==
    /\ req[r].pc = "search"
    /\ \E res \in Outcomes :
        /\ CASE res = "transport" ->
                  \* resp is nil: io.ReadAll(resp.Body) panics before http.Error
                  /\ req' = [req EXCEPT ![r].pc = "done", ![r].panicked = TRUE,
                                        ![r].calls = Append(@, Call("search", 0, ExistingIssuesQuery(req[r].release), res))]
                  /\ UNCHANGED config
             [] res = "http" ->
                  /\ req' = [req EXCEPT ![r].pc = "done",
                                        ![r].code = StatusInternalServerError,
                                        ![r].logged = Append(@, "SearchError"),
                                        ![r].calls = Append(@, Call("search", 0, ExistingIssuesQuery(req[r].release), res))]
                  /\ UNCHANGED config
             [] res = "ok" ->
                  \E existingIssues \in SearchResults(ExistingIssuesQuery(req[r].release)) :
                    IF NoPreviousIssues(existingIssues)
                    THEN \* i := release.JiraIssue()
                         /\ req' = [req EXCEPT ![r].pc = "create",
                                               ![r].existingIssues = existingIssues,
                                               ![r].i = JiraIssue(req[r].release),
                                               ![r].calls = Append(@, Call("search", 0, ExistingIssuesQuery(req[r].release), res))]
                         /\ config' = [config EXCEPT !.AddLabels =
                                          AppendBacking(@, req[r].release.Project)]
                    ELSE LET sel == SelectOldest(existingIssues) IN
                         /\ UNCHANGED config
                         /\ req' = [req EXCEPT
                            ![r].pc = "update",
                            ![r].existingIssues = existingIssues,
                            ![r].oldestExistingIssue = sel.oldestExistingIssue,
                            ![r].duplicateIssueKeys = sel.duplicateIssueKeys,
                            ![r].logged = IF Len(sel.duplicateIssueKeys) > 0
                                          THEN Append(@, "Duplicates") ELSE @,
                            ![r].calls = Append(@, Call("search", 0, ExistingIssuesQuery(req[r].release), res))]
    /\ UNCHANGED <<env, issues, rev, server, jira, tmpl>>

\* lines 112-125: no previous issue, create the rendered one
Create(r) ==
    /\ req[r].pc = "create"
    /\ \E res \in Outcomes :
        LET call == Call("create", 0, Marshal(req[r].i), res) IN
        CASE res = "ok" ->
               \E t \in Clock..MaxTime :
                 LET created == TrackerIssue(Len(issues) + 1, Marshal(req[r].i), t) IN
                 /\ issues' = Append(issues, created)
                 /\ rev' = rev + 1
                 /\ req' = [req EXCEPT ![r].pc = "done",
                                       ![r].newIssue = IssueRef(created),
                                       ![r].code = StatusOK,
                                       ![r].logged = Append(@, "Created"),
                                       ![r].calls = Append(@, call)]
          [] res = "http" ->
               \* http.Error is not followed by a return: line 123 reads
               \* newIssue.ID of the nil newIssue and panics
               /\ req' = [req EXCEPT ![r].pc = "done",
                                     ![r].code = StatusInternalServerError,
                                     ![r].panicked = TRUE,
                                     ![r].logged = Append(@, "CreateError"),
                                     ![r].calls = Append(@, call)]
               /\ UNCHANGED <<issues, rev>>
          [] res = "transport" ->
               \* response is nil: io.ReadAll(response.Body) panics
               /\ req' = [req EXCEPT ![r].pc = "done", ![r].panicked = TRUE,
                                     ![r].calls = Append(@, call)]
               /\ UNCHANGED <<issues, rev>>
    /\ UNCHANGED <<env, config, server, jira, tmpl>>

\* lines 158-178: set the summary of the oldest issue
Update(r) ==
    /\ req[r].pc = "update"
    /\ LET id == req[r].oldestExistingIssue.ID IN
       \E res \in IF id \in DOMAIN issues THEN Outcomes ELSE Outcomes \ {"ok"} :
        LET call == Call("update", id, Updates(req[r].release), res) IN
        CASE res = "ok" ->
               /\ issues' = [issues EXCEPT ![id] = TrackerUpdate(@, Updates(req[r].release))]
               /\ rev' = rev + 1
               /\ req' = [req EXCEPT ![r].pc = "done", ![r].code = StatusOK,
                                     ![r].logged = Append(@, "Updated"),
                                     ![r].calls = Append(@, call)]
          [] res = "http" ->
               /\ req' = [req EXCEPT ![r].pc = "done",
                                     ![r].code = StatusInternalServerError,
                                     ![r].logged = Append(@, "UpdateError"),
                                     ![r].calls = Append(@, call)]
               /\ UNCHANGED <<issues, rev>>
          [] res = "transport" ->
               \* resp is nil: io.ReadAll(resp.Body) panics
               /\ req' = [req EXCEPT ![r].pc = "done", ![r].panicked = TRUE,
                                     ![r].calls = Append(@, call)]
               /\ UNCHANGED <<issues, rev>>
    /\ UNCHANGED <<env, config, server, jira, tmpl>>

(* ------------------------------ startup -------------------------------- *)

\* a variable that is not set in the environment
Unset == "<unset>"
\* a JIRA_URL that url.Parse rejects
BadUrl == "%zz"
\* a status of the tracker's workflow other than the configured one
OtherStatus == "Done"

\* a configuration whose AddLabels has room for one more element
ConfigSetupSpareCapacity(e) ==
    [ JiraUrl |-> e.JIRA_URL, Project |-> e.PROJECT, DefaultStatus |-> e.DEFAULT_STATUS,
      AddLabels |-> [array |-> Append(e.ADD_LABELS, ""), len |-> Len(e.ADD_LABELS)] ]

\* envconfig.Process("jelease", &config) when every required variable is
\* set: only the fields of Config are read
ConfigSetup(e) ==
    [ JiraUrl |-> e.JIRA_URL, Project |-> e.PROJECT, DefaultStatus |-> e.DEFAULT_STATUS,
      AddLabels |-> MakeSlice(e.ADD_LABELS) ]

\* var config Config before configSetup
ZeroConfig ==
    [ JiraUrl |-> "", Project |-> "", DefaultStatus |-> "", AddLabels |-> MakeSlice(<< >>) ]

\* envconfig.Process("jelease", &config): the fields are filled in their
\* order in Config, and the first required variable that is not set ends it
Process(e) ==
    IF e.JIRA_URL = Unset
    THEN [config |-> ZeroConfig, err |-> "required key JIRA_URL missing value"]
    ELSE IF e.PROJECT = Unset
    THEN [config |-> [ZeroConfig EXCEPT !.JiraUrl = e.JIRA_URL],
          err |-> "required key PROJECT missing value"]
    ELSE IF e.DEFAULT_STATUS = Unset
    THEN [config |-> [ZeroConfig EXCEPT !.JiraUrl = e.JIRA_URL, !.Project = e.PROJECT],
          err |-> "required key DEFAULT_STATUS missing value"]
    ELSE [config |-> ConfigSetup(e), err |-> ""]

\* the environments of a server that started
Environments ==
    [ JIRA_URL : {"https://jira.example"}, PROJECT : {"PLAT"}, DEFAULT_STATUS : {"To Do"},
      ADD_LABELS : AddLabelsChoices, DRY_RUN : BOOLEAN ]

\* the environments a process may be started in
StartupEnvironments ==
    [ JIRA_URL : {"https://jira.example", BadUrl, Unset}, PROJECT : {"PLAT", Unset},
      DEFAULT_STATUS : {"To Do", Unset},
      ADD_LABELS : AddLabelsChoices, DRY_RUN : BOOLEAN ]

\* the projects and statuses a tracker may have
Trackers ==
    [ projects : SUBSET {"PLAT", "OPS"}, statuses : SUBSET {"To Do", OtherStatus} ]

\* the issues the tracker may hold at startup: issues an earlier run of the
\* server created under the same configuration
InitialTrackers(c, max) ==
    LET fields(p) == [ Description |-> "Update issue generated by https://github.2rioffice.com/platform/jelease using newreleases.io.",
                       Project |-> c.Project, Type |-> "Task", Status |-> c.DefaultStatus,
                       Labels |-> Append(Elems(c.AddLabels), p),
                       Summary |-> <<"Update ", p, " to version ", "1.9.0">> ]
    IN  UNION { { [n \in 1..k |-> TrackerIssue(n, fields(ps[n]), ts[n])] :
                    ps \in [1..k -> Projects],
                    ts \in { f \in [1..k -> 0..MaxTime] :
                               \A a, b \in 1..k : a < b => f[a] <= f[b] } } :
                k \in 0..max }

\* the steps of run() before serveHTTP, in their order
StartupSteps == <<"configSetup", "projectExists", "statusExists">>

\* run() returns fmt.Errorf(context, err), or panics
Returned(context) == [server EXCEPT !.pc = "returned", !.err = context]
Panicked == [server EXCEPT !.pc = "panicked"]
Passed(step, next) == [server EXCEPT !.pc = next, !.passed = Append(@, step)]

\* lines 196-217 and 272-275
configSetup ==
    /\ server.pc = "configSetup"
    /\ config' = Process(env).config
    /\ IF Process(env).err # ""
       THEN server' = Returned("error in config setup")
       ELSE IF config'.JiraUrl = BadUrl
       THEN \* jira.NewClient: url.Parse(baseURL) fails
            server' = Returned("error in config setup")
       ELSE server' = Passed("configSetup", "projectExists")
    /\ UNCHANGED <<env, issues, rev, req, jira, tmpl>>

\* lines 219-240 and 276-279
projectExists ==
    /\ server.pc = "projectExists"
    /\ \E res \in Outcomes :
         CASE res = "transport" ->
                \* response is nil: response.Body panics
                server' = Panicked
           [] res = "http" ->
                server' = Returned("error in check if configured project exists")
           [] res = "ok" ->
                IF config.Project \in jira.projects
                THEN server' = Passed("projectExists", "statusExists")
                ELSE server' = Returned("error in check if configured project exists")
    /\ UNCHANGED <<env, config, issues, rev, req, jira, tmpl>>

\* lines 242-263 and 280-283
statusExists ==
    /\ server.pc = "statusExists"
    /\ \E res \in Outcomes :
         CASE res = "transport" ->
                \* response is nil: response.Body panics
                server' = Panicked
           [] res = "http" ->
                server' = Returned("error in check if configured default status exists")
           [] res = "ok" ->
                IF config.DefaultStatus \in jira.statuses
                THEN server' = Passed("statusExists", "serveHTTP")
                ELSE server' = Returned("error in check if configured default status exists")
    /\ UNCHANGED <<env, config, issues, rev, req, jira, tmpl>>

\* lines 265-270 and 284: http.ListenAndServe serves, or returns at once (the
\* port cannot be bound)
serveHTTP ==
    /\ server.pc = "serveHTTP"
    /\ \E bound \in BOOLEAN :
         IF bound
         THEN server' = [server EXCEPT !.pc = "serving"]
         ELSE server' = Returned("listen")
    /\ UNCHANGED <<env, config, issues, rev, req, jira, tmpl>>

(* ----------------------------- config.Template -------------------------- *)

\* the tokens of a template text: a word, the delimiters, a field, a builtin
Tokens == {"hello", "{{", "}}", ".Project", "print"}
\* var FuncsMap template.FuncMap (nil) and the builtins of text/template
FuncsMap == {}
Builtins == {"print"}
Identifiers == {"hello", "print"}

RECURSIVE SeqsUpTo(_, _)
SeqsUpTo(S, n) ==
    IF n = 0 THEN {<< >>}
    ELSE LET shorter == SeqsUpTo(S, n - 1)
         IN  shorter \cup { Append(q, x) : q \in shorter, x \in S }

\* the template texts tried
TemplateValues == SeqsUpTo(Tokens, MaxTemplateLen)

\* a Template without a parse tree (the zero value, and Parse's nil result)
ZeroTemplate == [hasTree |-> FALSE, Root |-> << >>]
TextNode(items) == [kind |-> "text", items |-> items]
ActionNode(items) == [kind |-> "action", items |-> items]

\* text/template's parser from token i on: text up to a left delimiter is one
\* text node; an action needs a command, of fields and defined functions, and
\* its right delimiter
RECURSIVE ParseFrom(_, _, _, _, _)
ParseFrom(value, i, inAction, cur, nodes) ==
    LET flushed == IF cur = << >> THEN nodes ELSE Append(nodes, TextNode(cur))
        failed(msg) == [parsed |-> ZeroTemplate, err |-> msg]
    IN  IF i > Len(value)
        THEN IF inAction
             THEN failed("unclosed action")
             ELSE [parsed |-> [hasTree |-> TRUE, Root |-> flushed], err |-> ""]
        ELSE IF ~inAction
        THEN IF value[i] = "{{"
             THEN ParseFrom(value, i + 1, TRUE, << >>, flushed)
             ELSE ParseFrom(value, i + 1, FALSE, Append(cur, value[i]), nodes)
        ELSE IF value[i] = "}}"
        THEN IF cur = << >>
             THEN failed("missing value for command")
             ELSE ParseFrom(value, i + 1, FALSE, << >>, Append(nodes, ActionNode(cur)))
        ELSE IF value[i] = "{{"
        THEN failed("unexpected left delimiter in command")
        ELSE IF value[i] \in Identifiers /\ value[i] \notin FuncsMap \cup Builtins
        THEN failed("function not defined")
        ELSE ParseFrom(value, i + 1, TRUE, Append(cur, value[i]), nodes)

\* template.New("").Funcs(FuncsMap).Parse(value)
Parse(value) == ParseFrom(value, 1, FALSE, << >>, << >>)

\* Set with the assignment made before the error is looked at
SetAssignsFirst(t, value) ==
    [t |-> Parse(value).parsed, err |-> Parse(value).err]

\* func (t *Template) Set(value string) error
Set(t, value) ==
    LET p == Parse(value)
    IN  IF p.err # ""
        THEN [t |-> t, err |-> p.err]
        ELSE [t |-> p.parsed, err |-> ""]

\* func (t *Template) UnmarshalText(text []byte) error
UnmarshalText(t, text) == Set(t, text)

NoCall == [op |-> "", value |-> << >>, err |-> ""]

CallSet(value) ==
    /\ tmpl' = [t |-> Set(tmpl.t, value).t,
                call |-> [op |-> "Set", value |-> value, err |-> Set(tmpl.t, value).err]]
    /\ UNCHANGED <<env, config, issues, rev, req, server, jira>>

CallUnmarshalText(text) ==
    /\ tmpl' = [t |-> UnmarshalText(tmpl.t, text).t,
                call |-> [op |-> "UnmarshalText", value |-> text,
                          err |-> UnmarshalText(tmpl.t, text).err]]
    /\ UNCHANGED <<env, config, issues, rev, req, server, jira>>

(* ---------------------------- the environment --------------------------- *)

\* somebody moves issue n to another status of the workflow
Transition(n) ==
    /\ \E status \in jira.statuses \ {issues[n].Status} :
         issues' = [issues EXCEPT ![n].Status = status]
    /\ UNCHANGED <<env, config, rev, req, server, jira, tmpl>>

(* --------------------------- the specifications ------------------------- *)

\* the server passed its startup checks and serves
Serving ==
    /\ server = [pc |-> "serving", err |-> "", passed |-> StartupSteps]
    /\ jira = [projects |-> {config.Project}, statuses |-> {config.DefaultStatus, OtherStatus}]
    /\ tmpl = [t |-> ZeroTemplate, call |-> NoCall]

Init ==
    /\ env \in Environments
    /\ config = ConfigSetup(env)
    /\ issues \in InitialTrackers(config, MaxInit)
    /\ req = [r \in Requests |-> IdleRequest]
    /\ rev = 0
    /\ Serving

Next == \E r \in 1..MaxReq : Receive(r) \/ Search(r) \/ Create(r) \/ Update(r)

\* MaxReq requests, handled concurrently, on a tracker with up to MaxInit issues
Spec == Init /\ [][Next]_vars

InitRace ==
    /\ env \in Environments
    /\ config = ConfigSetup(env)
    /\ issues = << >>
    /\ req = [r \in Requests |-> IdleRequest]
    /\ rev = 0
    /\ Serving

NextRace == \E r \in 1..MaxRace : Receive(r) \/ Search(r) \/ Create(r) \/ Update(r)

\* MaxRace requests, handled concurrently, on a tracker that starts empty
SpecRace == InitRace /\ [][NextRace]_vars

InitStartup ==
    /\ env \in StartupEnvironments
    /\ config = ZeroConfig
    /\ jira \in Trackers
    /\ issues \in (IF Process(env).err = ""
                   THEN InitialTrackers(ConfigSetup(env), MaxStartupInit)
                   ELSE {<< >>})
    /\ req = [r \in Requests |-> IdleRequest]
    /\ rev = 0
    /\ server = [pc |-> "configSetup", err |-> "", passed |-> << >>]
    /\ tmpl = [t |-> ZeroTemplate, call |-> NoCall]

NextStartup ==
    \/ configSetup
    \/ projectExists
    \/ statusExists
    \/ serveHTTP
    \/ \E r \in 1..MaxStartupReq : Receive(r) \/ Search(r) \/ Create(r) \/ Update(r)

\* the process from its start, and MaxStartupReq requests sent to it
SpecStartup == InitStartup /\ [][NextStartup]_vars

InitStatus ==
    /\ env \in Environments
    /\ config = ConfigSetup(env)
    /\ issues \in InitialTrackers(config, MaxStatusInit)
    /\ req = [r \in Requests |-> IdleRequest]
    /\ rev = 0
    /\ Serving

NextStatus ==
    \/ \E r \in 1..MaxStatusReq : Receive(r) \/ Search(r) \/ Create(r) \/ Update(r)
    \/ \E n \in DOMAIN issues : Transition(n)

\* MaxStatusReq requests on a tracker whose issues change status meanwhile
SpecStatus == InitStatus /\ [][NextStatus]_vars

InitTemplate ==
    /\ env = [ JIRA_URL |-> "https://jira.example", PROJECT |-> "PLAT",
               DEFAULT_STATUS |-> "To Do", ADD_LABELS |-> << >>, DRY_RUN |-> FALSE ]
    /\ config = ConfigSetup(env)
    /\ issues = << >>
    /\ req = [r \in Requests |-> IdleRequest]
    /\ rev = 0
    /\ server = [pc |-> "configSetup", err |-> "", passed |-> << >>]
    /\ jira = [projects |-> {config.Project}, statuses |-> {config.DefaultStatus, OtherStatus}]
    /\ tmpl = [t |-> ZeroTemplate, call |-> NoCall]

NextTemplate ==
    \E value \in TemplateValues : CallSet(value) \/ CallUnmarshalText(value)

\* a Template that is set again and again, as a flag or from a text
SpecTemplate == InitTemplate /\ [][NextTemplate]_vars

(* ------------------------- reading a request --------------------------- *)

Done(r) == req[r].pc = "done"

\* the positions in r's calls of the calls of the operations ops
CallsOf(r, ops) == { k \in DOMAIN req[r].calls : req[r].calls[k].op \in ops }
NumCalls(r, op) == Cardinality(CallsOf(r, {op}))

SearchSucceeded(r) == \E k \in CallsOf(r, {"search"}) : req[r].calls[k].res = "ok"
SearchFailed(r) == \E k \in CallsOf(r, {"search"}) : req[r].calls[k].res # "ok"
MutationFailed(r) == \E k \in CallsOf(r, {"create", "update"}) : req[r].calls[k].res # "ok"

\* the number of issues r's search returned
N(r) == Len(req[r].existingIssues)

(* ------------------------------- claims -------------------------------- *)

\* C1: a request whose search succeeds with an empty result list calls
\* create exactly once (once it has finished; never more than once before)
\* and never calls update.
C1_EmptyResultCreatesOnce ==
    \A r \in Requests :
        SearchSucceeded(r) /\ N(r) = 0 =>
            /\ NumCalls(r, "update") = 0
            /\ NumCalls(r, "create") <= 1
            /\ Done(r) => NumCalls(r, "create") = 1

C1_Witness ==
    \E r \in Requests :
        /\ Done(r) /\ SearchSucceeded(r) /\ N(r) = 0
        /\ NumCalls(r, "create") = 1
        /\ req[r].newIssue # Nil

\* C2: a request whose search succeeds with N >= 1 issues calls update
\* exactly once, on the id of a returned issue whose createdAt is the
\* minimum of the result, and never calls create; the update is made whatever
\* the current summary of that issue is.
C2_NonEmptyResultUpdatesOldest ==
    \A r \in Requests :
        SearchSucceeded(r) /\ N(r) >= 1 =>
            /\ NumCalls(r, "create") = 0
            /\ NumCalls(r, "update") <= 1
            /\ Done(r) => NumCalls(r, "update") = 1
            /\ \A k \in CallsOf(r, {"update"}) :
                 \E i \in 1..N(r) :
                    /\ req[r].existingIssues[i].ID = req[r].calls[k].id
                    /\ \A j \in 1..N(r) :
                         req[r].existingIssues[i].Created <= req[r].existingIssues[j].Created

\* a finished request that found several issues of different age, not the
\* oldest first, and updated one whose summary was already the rendered one
C2_Witness ==
    \E r \in Requests :
        /\ Done(r) /\ SearchSucceeded(r) /\ N(r) >= 2
        /\ req[r].existingIssues[1].Created > req[r].existingIssues[2].Created
        /\ NumCalls(r, "update") = 1
        /\ req[r].oldestExistingIssue.Summary = IssueSummary(req[r].release)
        /\ req[r].code = StatusOK

\* C3: for a result of N >= 1 issues the duplicate keys are exactly the keys
\* of the N-1 returned issues other than the chosen one (none, and no
\* "Ignoring ... duplicate" log line, when N = 1), and no create or update
\* call of the request names one of those issues.
C3_DuplicatesAreTheOthers ==
    \A r \in Requests :
        SearchSucceeded(r) /\ N(r) >= 1 =>
            LET existing == req[r].existingIssues
                dups     == req[r].duplicateIssueKeys
                oldest   == req[r].oldestExistingIssue
            IN  /\ \E i \in 1..N(r) : existing[i] = oldest
                /\ Len(dups) = N(r) - 1
                /\ { dups[d] : d \in DOMAIN dups }
                     = { existing[i].Key : i \in 1..N(r) } \ {oldest.Key}
                /\ (\E l \in DOMAIN req[r].logged : req[r].logged[l] = "Duplicates")
                     <=> N(r) > 1
                /\ \A k \in CallsOf(r, {"create", "update"}) :
                     \A i \in 1..N(r) :
                        existing[i].Key # oldest.Key => req[r].calls[k].id # existing[i].ID

\* three issues returned, the oldest one last, and the update made
C3_Witness ==
    \E r \in Requests :
        /\ Done(r) /\ N(r) = 3
        /\ req[r].oldestExistingIssue = req[r].existingIssues[3]
        /\ req[r].existingIssues[3].Created < req[r].existingIssues[2].Created
        /\ Len(req[r].duplicateIssueKeys) = 2
        /\ NumCalls(r, "update") = 1

\* C4 (as claimed): a request whose search returns an error ends with a 500
\* response and makes no create and no update call.
C4_SearchErrorIs500 ==
    \A r \in Requests :
        SearchFailed(r) =>
            /\ Done(r)
            /\ req[r].code = StatusInternalServerError
            /\ ~req[r].panicked
            /\ CallsOf(r, {"create", "update"}) = {}

\* C5 (as claimed): a request whose create or update returns an error ends
\* with exactly a 500 response: no panic on the missing issue, no "Created"
\* or "Updated" report, and the failed call is the request's last call.
C5_MutationErrorIsTerminal ==
    \A r \in Requests :
        MutationFailed(r) =>
            /\ Done(r)
            /\ req[r].code = StatusInternalServerError
            /\ ~req[r].panicked
            /\ \A l \in DOMAIN req[r].logged : req[r].logged[l] \notin {"Created", "Updated"}
            /\ \A k \in CallsOf(r, {"create", "update"}) : k = Len(req[r].calls)

\* C6 (as claimed): with JELEASE_DRY_RUN set, no create and no update call
\* reaches the tracker client.
C6_DryRunMakesNoMutation ==
    env.DRY_RUN => \A r \in Requests : CallsOf(r, {"create", "update"}) = {}

(* ------------------- two requests, one after the other ------------------ *)

\* r changed the tracker: its create or its update succeeded
Changed(r) == \E k \in CallsOf(r, {"create", "update"}) : req[r].calls[k].res = "ok"

\* the revision of the tracker that r's search met, and the one its create or
\* update met (the search is a request's first call, the mutation its second)
SearchRev(r) == req[r].calls[1].rev
ChangeRev(r) == req[r].calls[2].rev

\* the id of the issue that r created or updated
ChangedIssue(r) ==
    IF req[r].newIssue # Nil THEN req[r].newIssue.ID ELSE req[r].calls[2].id

\* r1 and r2 are for the same project, nothing changed the tracker between
\* r1's search and r1's create or update, and r2's search met the tracker as
\* r1 left it
Sequential(r1, r2) ==
    /\ r1 # r2
    /\ req[r1].release.Project = req[r2].release.Project
    /\ Changed(r1)
    /\ SearchRev(r1) = ChangeRev(r1)
    /\ SearchSucceeded(r2)
    /\ SearchRev(r2) = ChangeRev(r1) + 1

\* C7 (as claimed): of two requests for one project handled one after the
\* other, the second creates no issue and updates the very issue that the
\* first created or updated.
C7_SecondUpdatesSameIssue ==
    \A r1, r2 \in Requests :
        Sequential(r1, r2) =>
            /\ req[r2].pc # "create"
            /\ NumCalls(r2, "create") = 0
            /\ req[r2].oldestExistingIssue.ID = ChangedIssue(r1)
            /\ \A k \in CallsOf(r2, {"update"}) : req[r2].calls[k].id = ChangedIssue(r1)

\* C7 (amended): the second request creates no issue, and it updates the
\* issue that the first created or updated unless an issue with the same
\* createdAt is listed before that one in the second search result; then it
\* updates the first such issue listed.
C7_SecondUpdatesSameIssueOrTie ==
    \A r1, r2 \in Requests :
        Sequential(r1, r2) =>
            LET existing == req[r2].existingIssues
                oldest   == req[r2].oldestExistingIssue
            IN  /\ req[r2].pc # "create"
                /\ NumCalls(r2, "create") = 0
                /\ \A k \in CallsOf(r2, {"update"}) : req[r2].calls[k].id = oldest.ID
                /\ \/ oldest.ID = ChangedIssue(r1)
                   \/ \E i, j \in 1..N(r2) :
                        /\ i < j
                        /\ existing[i] = oldest
                        /\ existing[j].ID = ChangedIssue(r1)
                        /\ existing[i].Created = existing[j].Created
                        /\ \A h \in 1..(i - 1) : existing[h].Created # existing[i].Created

\* the first request created the issue, the second one updated it
C7_Witness ==
    \E r1, r2 \in Requests :
        /\ Sequential(r1, r2)
        /\ req[r1].newIssue # Nil
        /\ Done(r2)
        /\ req[r2].code = StatusOK
        /\ \E k \in CallsOf(r2, {"update"}) :
             /\ req[r2].calls[k].id = req[r1].newIssue.ID
             /\ req[r2].calls[k].res = "ok"
        /\ Len(issues) = 1

(* --------------------------- the create race ---------------------------- *)

\* r1 and r2, for the same project, both found no issue and both created one
Raced(r1, r2) ==
    /\ r1 # r2
    /\ req[r1].release.Project = req[r2].release.Project
    /\ SearchSucceeded(r1) /\ N(r1) = 0 /\ req[r1].newIssue # Nil
    /\ SearchSucceeded(r2) /\ N(r2) = 0 /\ req[r2].newIssue # Nil

\* r3 is a later request for the project of r1 and r2: its search came after
\* both creates
LaterThan(r3, r1, r2) ==
    /\ r3 \notin {r1, r2}
    /\ req[r3].release.Project = req[r1].release.Project
    /\ SearchSucceeded(r3)
    /\ SearchRev(r3) > ChangeRev(r1)
    /\ SearchRev(r3) > ChangeRev(r2)

\* C8: after two requests for one project have both found no issue and both
\* created one, a later request for the project creates no third issue and
\* updates only one of the two, which is not younger than the other.
C8_RaceThenUpdateOlder ==
    \A r1, r2, r3 \in Requests :
        Raced(r1, r2) /\ LaterThan(r3, r1, r2) =>
            LET c1 == req[r1].newIssue.ID
                c2 == req[r2].newIssue.ID
            IN  /\ c1 # c2
                /\ req[r3].pc # "create"
                /\ NumCalls(r3, "create") = 0
                /\ NumCalls(r3, "update") <= 1
                /\ Done(r3) => NumCalls(r3, "update") = 1
                /\ \A k \in CallsOf(r3, {"update"}) :
                     /\ req[r3].calls[k].id \in {c1, c2}
                     /\ issues[req[r3].calls[k].id].Created <= issues[c1].Created
                     /\ issues[req[r3].calls[k].id].Created <= issues[c2].Created
                /\ Cardinality({ n \in DOMAIN issues :
                        Matches(issues[n], ExistingIssuesQuery(req[r3].release)) }) = 2

\* the race happened, and a third request updated the strictly older issue
C8_Witness ==
    \E r1, r2, r3 \in Requests :
        /\ Raced(r1, r2) /\ LaterThan(r3, r1, r2)
        /\ SearchRev(r1) = 0 /\ SearchRev(r2) = 0
        /\ issues[req[r1].newIssue.ID].Created < issues[req[r2].newIssue.ID].Created
        /\ Done(r3)
        /\ \E k \in CallsOf(r3, {"update"}) :
             /\ req[r3].calls[k].id = req[r1].newIssue.ID
             /\ req[r3].calls[k].res = "ok"
        /\ Len(issues) = 2

(* ----------------------- requests for other projects -------------------- *)

\* the project of the release an issue was created for: JiraIssue puts it
\* last in the labels
CreatedFor(issue) == issue.Labels[Len(issue.Labels)]

\* C9 (as claimed): a request for project P never finds, chooses, reports as
\* duplicate or updates an issue that was created for another project.
C9_OtherProjectsUntouched ==
    \A r \in Requests :
        SearchSucceeded(r) =>
            /\ \A i \in 1..N(r) :
                 CreatedFor(req[r].existingIssues[i]) = req[r].release.Project
            /\ \A k \in CallsOf(r, {"update"}) :
                 req[r].calls[k].res = "ok" =>
                    CreatedFor(issues[req[r].calls[k].id]) = req[r].release.Project

(* ------------------------------ the method ------------------------------ *)

\* C10: a request whose method is not POST ends with 405 and makes no call
\* on the tracker client, whatever its body.
C10_OtherMethodIs405 ==
    \A r \in Requests :
        req[r].pc # "idle" /\ req[r].method # "POST" =>
            /\ Done(r)
            /\ req[r].code = StatusMethodNotAllowed
            /\ ~req[r].panicked
            /\ req[r].calls = << >>
            /\ req[r].release = NoRelease

\* a GET whose body is a well-formed release was answered 405
C10_Witness ==
    \E r \in Requests :
        /\ Done(r)
        /\ req[r].method = "GET"
        /\ req[r].body.ok
        /\ req[r].code = StatusMethodNotAllowed

(* ------------------------------ the body -------------------------------- *)

\* C11: a POST whose body does not decode ends with 400 and makes no call on
\* the tracker client.
C11_BadBodyIs400 ==
    \A r \in Requests :
        req[r].pc # "idle" /\ req[r].method = "POST" /\ ~req[r].body.ok =>
            /\ Done(r)
            /\ req[r].code = StatusBadRequest
            /\ ~req[r].panicked
            /\ req[r].calls = << >>

\* a POST with a body that is not JSON was answered 400
C11_Witness ==
    \E r \in Requests :
        /\ Done(r)
        /\ req[r].method = "POST"
        /\ req[r].body = BadBody
        /\ req[r].code = StatusBadRequest

(* ----------------------------- the content ------------------------------ *)

\* C13: the issue passed to create for an event (project, version) has the
\* summary "Update {project} to version {version}", the configured add-labels
\* followed by the project as labels, the configured default status and the
\* configured project key; update sends that same summary.
C13_RenderedContent ==
    \A r \in Requests :
        LET summary == <<"Update ", req[r].body.Project, " to version ", req[r].body.Version>> IN
        /\ \A k \in CallsOf(r, {"create"}) :
             LET i == req[r].calls[k].arg IN
             /\ i.Summary = summary
             /\ i.Labels = env.ADD_LABELS \o <<req[r].body.Project>>
             /\ i.Status = env.DEFAULT_STATUS
             /\ i.Project = env.PROJECT
             /\ req[r].calls[k].res = "ok" =>
                  /\ issues[req[r].newIssue.ID].Labels = i.Labels
                  /\ issues[req[r].newIssue.ID].Status = i.Status
                  /\ issues[req[r].newIssue.ID].Project = i.Project
        /\ \A k \in CallsOf(r, {"update"}) :
             /\ req[r].calls[k].arg.summary = summary
             /\ req[r].calls[k].res = "ok" /\ rev = req[r].calls[k].rev + 1 =>
                  issues[req[r].calls[k].id].Summary = summary

\* one request created an issue under a configured add-label, and the next
\* one, for another version of the project, set its summary
C13_Witness ==
    \E r1, r2 \in Requests :
        /\ r1 # r2
        /\ env.ADD_LABELS # << >>
        /\ \E k \in CallsOf(r1, {"create"}) :
             /\ req[r1].calls[k].res = "ok"
             /\ Len(req[r1].calls[k].arg.Labels) = Len(env.ADD_LABELS) + 1
        /\ req[r1].body.Version # req[r2].body.Version
        /\ \E k \in CallsOf(r2, {"update"}) :
             /\ req[r2].calls[k].res = "ok"
             /\ req[r2].calls[k].id = req[r1].newIssue.ID
             /\ issues[req[r1].newIssue.ID].Summary
                  = <<"Update ", req[r2].body.Project, " to version ", req[r2].body.Version>>

(* ------------------------------- the tie -------------------------------- *)

\* C14: the chosen issue is the first element of the result list whose
\* createdAt is not later than that of any other element; among several
\* issues of the minimum createdAt it is the one listed first.
C14_FirstOfTheOldest ==
    \A r \in Requests :
        SearchSucceeded(r) /\ N(r) >= 1 =>
            LET existing == req[r].existingIssues IN
            \E i \in 1..N(r) :
                /\ req[r].oldestExistingIssue = existing[i]
                /\ \A j \in 1..N(r) : existing[i].Created <= existing[j].Created
                /\ \A h \in 1..(i - 1) : existing[h].Created > existing[i].Created
                /\ \A k \in CallsOf(r, {"update"}) : req[r].calls[k].id = existing[i].ID

\* a younger issue listed first, then two issues of the minimum createdAt,
\* the one with the larger id before the other: the update named the former
C14_Witness ==
    \E r \in Requests :
        LET existing == req[r].existingIssues IN
        /\ Done(r) /\ N(r) = 3
        /\ existing[1].Created > existing[2].Created
        /\ existing[2].Created = existing[3].Created
        /\ existing[2].ID > existing[3].ID
        /\ \E k \in CallsOf(r, {"update"}) :
             req[r].calls[k].id = existing[2].ID /\ req[r].calls[k].res = "ok"

(* ------------------------------ the frame ------------------------------- *)

\* C15: no step removes an issue or changes a field of an issue other than
\* its summary, and a step in which a request updates changes no issue but
\* the one it names and adds none.
C15_UpdateChangesOnlySummary ==
    [][ /\ Len(issues') >= Len(issues)
        /\ \A n \in DOMAIN issues :
             issues'[n] = [issues[n] EXCEPT !.Summary = issues'[n].Summary]
        /\ \A r \in Requests :
             req[r].pc = "update" /\ req'[r].pc = "done" =>
                /\ Len(issues') = Len(issues)
                /\ \A n \in DOMAIN issues :
                     n # req[r].oldestExistingIssue.ID => issues'[n] = issues[n]
      ]_vars

\* an update gave an issue a new summary while another issue was on the tracker
C15_Witness ==
    \E r \in Requests :
        /\ Done(r)
        /\ Len(issues) >= 2
        /\ \E k \in CallsOf(r, {"update"}) :
             /\ req[r].calls[k].res = "ok"
             /\ issues[req[r].calls[k].id].Summary # req[r].oldestExistingIssue.Summary
             /\ issues[req[r].calls[k].id]
                  = [req[r].oldestExistingIssue EXCEPT
                       !.Summary = issues[req[r].calls[k].id].Summary]

(* ----------------------------- the pipeline ----------------------------- *)

\* at most one search and at most one create or update, the latter after a
\* successful search of the same request, and no call after a failed one
OnePipeline(r) ==
    /\ NumCalls(r, "search") <= 1
    /\ NumCalls(r, "create") + NumCalls(r, "update") <= 1
    /\ \A k \in CallsOf(r, {"create", "update"}) :
         \E j \in CallsOf(r, {"search"}) : j < k /\ req[r].calls[j].res = "ok"
    /\ \A k \in DOMAIN req[r].calls :
         req[r].calls[k].res # "ok" => k = Len(req[r].calls)

\* C16 (as claimed): every request is one bounded pipeline, and when it has
\* ended it has ended with a response.
C16_OnePipelineWithResponse ==
    \A r \in Requests :
        /\ OnePipeline(r)
        /\ Done(r) => req[r].code # NoStatus /\ ~req[r].panicked

(* ------------------------- the configured labels ------------------------ *)

\* C18: config.AddLabels keeps the elements it had at startup, and the labels
\* of every issue passed to create, and of every issue created, are the
\* startup add-labels followed by the project of the request that creates it.
C18_LabelsAreOwn ==
    /\ Elems(config.AddLabels) = env.ADD_LABELS
    /\ \A r \in Requests :
         /\ req[r].pc = "create" =>
              Marshal(req[r].i).Labels = env.ADD_LABELS \o <<req[r].body.Project>>
         /\ \A k \in CallsOf(r, {"create"}) :
              req[r].calls[k].arg.Labels = env.ADD_LABELS \o <<req[r].body.Project>>
         /\ req[r].newIssue # Nil =>
              issues[req[r].newIssue.ID].Labels = env.ADD_LABELS \o <<req[r].body.Project>>

\* two requests for different projects rendered their issues before either
\* created it, under a configured add-label, and both created
C18_Witness ==
    \E r1, r2 \in Requests :
        /\ env.ADD_LABELS # << >>
        /\ req[r1].body.Project # req[r2].body.Project
        /\ req[r1].newIssue # Nil /\ req[r2].newIssue # Nil
        /\ SearchRev(r1) = 0 /\ SearchRev(r2) = 0
        /\ issues[req[r1].newIssue.ID].Labels # issues[req[r2].newIssue.ID].Labels

(* ------------------------------- startup -------------------------------- *)

\* the endpoints serve only after the three startup steps passed, in their
\* order, with the configured project and status on the tracker, and a
\* request is handled only by a serving process
StartupGatesServing ==
    /\ server.pc \in {"serveHTTP", "serving"} =>
         /\ server.passed = StartupSteps
         /\ config.Project \in jira.projects
         /\ config.DefaultStatus \in jira.statuses
    /\ (\E r \in Requests : req[r].pc # "idle") => server.pc = "serving"

\* C12: startup is fail-fast: the endpoints serve only after configSetup,
\* projectExists and statusExists succeeded in that order, and when one of
\* them fails run returns an error and no request is ever served.
C12_FailFast ==
    /\ StartupGatesServing
    /\ (server.pc \notin {"configSetup", "projectExists", "statusExists"}
          /\ server.passed # StartupSteps)
         => (server.pc = "returned" /\ server.err # ""
               /\ \A r \in Requests : req[r].pc = "idle")

(* ------------------------------ the status ------------------------------ *)

\* the issues of the tracker a request's query stands for
Candidates(r) ==
    { n \in DOMAIN issues :
        /\ issues[n].Status = config.DefaultStatus
        /\ \E k \in DOMAIN issues[n].Labels : issues[n].Labels[k] = req[r].release.Project }

\* C17 as stated: an issue that has moved to another status is never updated:
\* every update that succeeds meets its issue in the configured default status.
C17_NeverUpdatesMoved ==
    [][ \A r \in Requests :
          (req[r].pc = "update" /\ req'[r].pc = "done" /\ rev' # rev)
            => issues[req[r].oldestExistingIssue.ID].Status = config.DefaultStatus ]_vars

\* C17: a search that succeeds returns exactly the issues that are, when it
\* runs, in the configured default status and labelled with the event's
\* project; with none the request goes on to create, otherwise it selects one
\* of them, and its update goes to the selected one.
C17_CandidatesAtSearch ==
    [][ \A r \in Requests :
          /\ (req[r].pc = "search" /\ req'[r].pc \in {"create", "update"}) =>
               /\ { req'[r].existingIssues[k].ID : k \in DOMAIN req'[r].existingIssues }
                    = Candidates(r)
               /\ req'[r].pc = "create" <=> Candidates(r) = {}
               /\ req'[r].pc = "update" => req'[r].oldestExistingIssue.ID \in Candidates(r)
          /\ (req[r].pc = "update" /\ req'[r].pc = "done") =>
               req'[r].calls[Len(req'[r].calls)].id = req[r].oldestExistingIssue.ID ]_vars

\* an issue of the event's project has moved to another status, and the
\* request found no candidate and goes on to create
C17_Witness ==
    \E r \in Requests, n \in DOMAIN issues :
        /\ req[r].pc = "create"
        /\ issues[n].Status # config.DefaultStatus
        /\ \E k \in DOMAIN issues[n].Labels : issues[n].Labels[k] = req[r].release.Project

(* ----------------------------- the template ----------------------------- *)

\* C19: a call of Set or UnmarshalText returns Parse's error; on an error the
\* held template is the one held before, otherwise it is the parsed one.
C19_SetRejectsMalformed ==
    [][ (tmpl'.call # tmpl.call \/ tmpl'.t # tmpl.t) =>
          /\ tmpl'.call.err = Parse(tmpl'.call.value).err
          /\ IF Parse(tmpl'.call.value).err # ""
             THEN tmpl'.t = tmpl.t
             ELSE tmpl'.t = Parse(tmpl'.call.value).parsed ]_vars

\* a malformed text was rejected by UnmarshalText while a parsed template
\* was held
C19_Witness ==
    /\ tmpl.call.op = "UnmarshalText"
    /\ tmpl.call.err # ""
    /\ tmpl.t.hasTree
    /\ tmpl.t.Root # << >>

====
